---- MODULE Spec2Model ----
(***************************************************************************)
(* wallsy: the stage-chaining pipeline of the command line tool.           *)
(*                                                                         *)
(* The group function builds one lazy seed generator (cli.py 224-232),     *)
(* every subcommand returns a callback, and process_pipeline (cli.py       *)
(* 594-609) folds the callbacks over the seed, drains the result and       *)
(* repeats while the repeat flag is set.  The callbacks are the decorators *)
(* of cli_utils/decorators.py (generator, stream) and the hand written     *)
(* wrappers of subcommands/desktop.py and subcommands/every.py; the        *)
(* 'every' command written inside cli.py (function repeat) is modelled as  *)
(* a stage kind of its own.  A generator is modelled by its local state;   *)
(* one next() on the composed generator is the recursive operator Pull.    *)
(***************************************************************************)
EXTENDS Integers, Sequences, FiniteSets, TLC

\* ----------------------------------------------------------------- bounds
MaxStages == 3      \* longest chain of subcommands on the command line
MaxSeed == 3        \* most artifacts given by --file / --url / stdin
MaxCount == 2       \* most artifacts one finite Source yields
MaxCycles == 3      \* cycles of the repeat loop that are explored
MaxEndless == 3     \* artifacts explored from a never-ending Source

MaxOpt == 2         \* most --file and most --url options of one 'add'
MaxChain == 2       \* longest chain explored around an 'add' subcommand

Intervals == {5}    \* the argument of the 'every' command

VARIABLES
    stages,     \* the declared subcommands, in command line order
    seed,       \* the artifacts named by --file, --url and stdin
    pc,         \* position of process_pipeline
    idx,        \* callbacks folded so far by the current process_stream
    cycle,      \* number of the current process_stream call
    passes,     \* drain loops started
    seedPos,    \* elements already taken from the generator obj.stream
    gens,       \* local state of the generator each folded stage created
    out,        \* per generator, the artifacts it yielded in this cycle
    log,        \* every pull and every stage body executed, in order
    repeat,     \* the repeat flag (obj.repeat / WallsyStream.repeat)
    interval,   \* obj.interval
    bg,         \* the desktop settings store: the artifact last set
    inv,        \* generator objects the Source functions have created
    fs,         \* the files on disk: path -> content
    store,      \* the string held by gsettings under picture-uri
    ret         \* the last call of a library function and its outcome

pipeVars == <<stages, seed, pc, idx, cycle, passes, seedPos, gens, out, log,
              repeat, interval, bg, inv>>
ioVars == <<fs, store, ret>>
vars == <<stages, seed, pc, idx, cycle, passes, seedPos, gens, out, log,
          repeat, interval, bg, inv, fs, store, ret>>

\* ------------------------------------------------------------- artifacts
\* org: who produced the file; st: the stage that put it into this stream
\* (0 is the seed); inv: the Source invocation; k: position; via: the
\* stages that have handled it and handed it on, oldest first.
Art(org, st, i, k) == [org |-> org, st |-> st, inv |-> i, k |-> k, via |-> <<>>]
NoArt == Art("none", 0, 0, 0)
DefaultBg == Art("desk", 0, 0, 0)
SeedArt(k) == Art("seed", 0, 0, k)
Applied(a, i) == [a EXCEPT !.via = Append(@, i)]

\* ---------------------------------------------------------------- stages
Decl(kind, cnt, endless, secs) ==
    [kind |-> kind, cnt |-> cnt, endless |-> endless, secs |-> secs,
     files |-> 0, urls |-> 0]

\* the 'add' subcommand of add.py with its --file and --url options
AddDecl(nf, nu) ==
    [Decl("add", 0, FALSE, 0) EXCEPT !.files = nf, !.urls = nu]

StageDecls ==
    {Decl("transform", 0, FALSE, 0), Decl("sink", 0, FALSE, 0)}
    \cup {Decl("source", c, FALSE, 0) : c \in 1..MaxCount}
    \cup {Decl("source", 0, TRUE, 0)}
    \cup {Decl("every", 0, FALSE, n) : n \in Intervals}
    \cup {Decl("repeat", 0, FALSE, n) : n \in Intervals}

Pipelines == UNION {[1..n -> StageDecls] : n \in 0..MaxStages}

\* the chains explored around 'add': add, Transform, desktop and every
AddDecls ==
    {AddDecl(nf, nu) : nf, nu \in 0..MaxOpt}
    \cup {Decl("transform", 0, FALSE, 0), Decl("sink", 0, FALSE, 0)}
    \cup {Decl("every", 0, FALSE, n) : n \in Intervals}
AddPipelines == UNION {[1..n -> AddDecls] : n \in 1..MaxChain}
Seeds == {[k \in 1..n |-> SeedArt(k)] : n \in 0..MaxSeed}

\* the part of the state the callbacks and generators read and write
Cur == [cycle |-> cycle, seedPos |-> seedPos, gens |-> gens, out |-> out,
        log |-> log, repeat |-> repeat, interval |-> interval, bg |-> bg,
        inv |-> inv]

Install(s) ==
    /\ seedPos' = s.seedPos
    /\ gens' = s.gens
    /\ out' = s.out
    /\ log' = s.log
    /\ repeat' = s.repeat
    /\ interval' = s.interval
    /\ bg' = s.bg
    /\ inv' = s.inv

Event(ev, i, c, a) == [ev |-> ev, st |-> i, c |-> c, a |-> a]
Logged(s, ev, i, a) == [s EXCEPT !.log = Append(@, Event(ev, i, s.cycle, a))]
Emit(s, i, a) == [s EXCEPT !.out[i] = Append(@, a)]
Ret(s, res, val) == [s |-> s, res |-> res, val |-> val]

\* a generator object: fin = it has returned; up = a Source still reads its
\* upstream; k = artifacts a Source body has yielded; file = the Sink's
\* local variable 'file' is not None; inv = the Source invocation it runs
Gen(i) == [fin |-> FALSE, up |-> TRUE, k |-> 0, file |-> FALSE, inv |-> i]
NewGen(s, g) == [s EXCEPT !.gens = Append(@, g)]
Finish(s, i) == [s EXCEPT !.gens[i].fin = TRUE]

\* the element of a one-element set: Only({e(r) : r \in {v}}) is e(v) with
\* v, the outcome of the upstream next(), computed once
Only(S) == CHOOSE x \in S : TRUE

RECURSIVE Pull(_, _, _)

\* --------------------------------------------------- composition (callbacks)
\* a wrapper that builds its result eagerly: it asks upstream at once
generator_eager(i, s) == NewGen(Pull(i - 1, s, {}).s, Gen(0))

\* a wrapper that also switches the repeat flag on
generator_flagging(i, s) == NewGen([s EXCEPT !.repeat = TRUE], Gen(0))

\* decorators.generator.wrapper: stream.stream = (func(file) for file in ...)
generator(i, s) == NewGen(s, Gen(0))

\* a wrapper that replaces the stream: stream.stream = inner()
stream_replace(i, s) ==
    NewGen([s EXCEPT !.inv = @ + 1], [Gen(s.inv + 1) EXCEPT !.up = FALSE])

\* a wrapper that keeps the generator object of its first call
stream_cached(i, s) == NewGen([s EXCEPT !.inv = 1], Gen(1))

\* decorators.stream.wrapper: inner() calls the Source function, which is a
\* generator function (add.py, randomize.py): a new generator object, no body
stream(i, s) == NewGen([s EXCEPT !.inv = @ + 1], Gen(s.inv + 1))

\* desktop.cli: stream.stream = dispatch(stream.stream)
desktop(i, s) == NewGen(s, Gen(0))

\* every.cli.wrapper: stream.repeat = True, then a generator over _repeat
wrapper(i, s) == NewGen([s EXCEPT !.repeat = TRUE], Gen(0))

\* cli.repeat under make_generator: nothing happens until a file arrives
repeat_callback(i, s) == NewGen(s, Gen(0))

callback(i, s) ==
    CASE stages[i].kind = "transform" -> generator(i, s)
      [] stages[i].kind = "source" -> stream(i, s)
      [] stages[i].kind = "add" -> stream(i, s)
      [] stages[i].kind = "sink" -> desktop(i, s)
      [] stages[i].kind = "every" -> wrapper(i, s)
      [] stages[i].kind = "repeat" -> repeat_callback(i, s)

\* ------------------------------------------------------------ next() calls
\* f is the set of stages whose body fails if it runs during this next()
\* (0 is load() in the seed generator): the environment's choice.

\* cli.cli: stream = (file for file in chain(*streams)), each load() lazy
seed_next(s, f) ==
    LET s1 == Logged(s, "pull", 0, NoArt) IN
    IF s1.seedPos >= Len(seed) THEN Ret(s1, "stop", NoArt)
    ELSE LET a == seed[s1.seedPos + 1]
             s2 == [s1 EXCEPT !.seedPos = @ + 1] IN
         IF 0 \in f THEN Ret(Logged(s2, "fail", 0, a), "raise", NoArt)
         ELSE Ret(Emit(Logged(s2, "load", 0, a), 0, a), "val", a)

\* a generator that tests its upstream for emptiness with one next() first
generator_probe(i, s, f) ==
    IF s.gens[i].fin THEN Ret(s, "stop", NoArt)
    ELSE Only({
         CASE r.res = "stop" -> Ret(Finish(r.s, i), "stop", NoArt)
           [] r.res = "val" ->
                IF i \in f
                THEN Ret(Logged(r.s, "fail", i, r.val), "exit", NoArt)
                ELSE LET b == Applied(r.val, i) IN
                     Ret(Emit(Logged(r.s, "exec", i, r.val), i, b), "val", b)
           [] OTHER -> r
         : r \in {Pull(i - 1,
                    Logged(IF s.out[i] = <<>>
                           THEN Pull(i - 1, Logged(s, "pull", i, NoArt), f).s
                           ELSE s, "pull", i, NoArt), f)} })

\* a generator folded over obj.stream instead of over the previous stage
generator_over_seed(i, s, f) ==
    IF s.gens[i].fin THEN Ret(s, "stop", NoArt)
    ELSE Only({
         CASE r.res = "stop" -> Ret(Finish(r.s, i), "stop", NoArt)
           [] r.res = "val" ->
                IF i \in f
                THEN Ret(Logged(r.s, "fail", i, r.val), "exit", NoArt)
                ELSE LET b == Applied(r.val, i) IN
                     Ret(Emit(Logged(r.s, "exec", i, r.val), i, b), "val", b)
           [] OTHER -> r
         : r \in {Pull(0, Logged(s, "pull", i, NoArt), f)} })

\* a generator that calls its function without a file when its upstream
\* ends before it has yielded anything, which the required-input guard stops
generator_guard_on_empty(i, s, f) ==
    IF s.gens[i].fin THEN Ret(s, "stop", NoArt)
    ELSE Only({
         CASE r.res = "stop" ->
                IF r.s.out[i] = <<>>
                THEN Ret(Logged(r.s, "fail", i, NoArt), "exit", NoArt)
                ELSE Ret(Finish(r.s, i), "stop", NoArt)
           [] r.res = "val" ->
                IF i \in f
                THEN Ret(Logged(r.s, "fail", i, r.val), "exit", NoArt)
                ELSE LET b == Applied(r.val, i) IN
                     Ret(Emit(Logged(r.s, "exec", i, r.val), i, b), "val", b)
           [] OTHER -> r
         : r \in {Pull(i - 1, Logged(s, "pull", i, NoArt), f)} })

\* a generator whose guard reports the error and hands the file on untouched
generator_hand_on(i, s, f) ==
    IF s.gens[i].fin THEN Ret(s, "stop", NoArt)
    ELSE Only({
         CASE r.res = "stop" -> Ret(Finish(r.s, i), "stop", NoArt)
           [] r.res = "val" ->
                LET b == Applied(r.val, i)
                    ev == IF i \in f THEN "fail" ELSE "exec" IN
                Ret(Emit(Logged(r.s, ev, i, r.val), i, b), "val", b)
           [] OTHER -> r
         : r \in {Pull(i - 1, Logged(s, "pull", i, NoArt), f)} })

\* the generator expression of decorators.generator; func is wrapped in
\* catch_errors, which turns an exception into fail() and exit(1)
generator_next(i, s, f) ==
    IF s.gens[i].fin THEN Ret(s, "stop", NoArt)
    ELSE Only({
         CASE r.res = "stop" -> Ret(Finish(r.s, i), "stop", NoArt)
           [] r.res = "val" ->
                IF i \in f
                THEN Ret(Logged(r.s, "fail", i, r.val), "exit", NoArt)
                ELSE LET b == Applied(r.val, i) IN
                     Ret(Emit(Logged(r.s, "exec", i, r.val), i, b), "val", b)
           [] OTHER -> r
         : r \in {Pull(i - 1, Logged(s, "pull", i, NoArt), f)} })

\* the body of a Source function that yields a count of files
\* (randomize.cli: for _ in range(count)), run by
\* inner() of decorators.stream; catch_errors has returned before it runs
stream_own(i, s, f) ==
    LET g == s.gens[i]
        d == stages[i] IN
    IF d.endless /\ g.k >= MaxEndless THEN Ret(s, "cut", NoArt)
    ELSE IF d.endless \/ g.k < d.cnt
    THEN IF i \in f THEN Ret(Logged(s, "fail", i, NoArt), "raise", NoArt)
         ELSE
         LET a == Art("src", i, g.inv, g.k + 1)
             s1 == [s EXCEPT !.gens[i].k = @ + 1] IN
         Ret(Emit(Logged(s1, "yield", i, a), i, a), "val", a)
    ELSE Ret(Finish(s, i), "stop", NoArt)

\* the body of add.cli: the files if any, else the urls if any, else a
\* usage error; load() of a file or url may fail (i \in f)
add_cli(i, s, f) ==
    LET g == s.gens[i]
        d == stages[i]
        org == IF d.files > 0 THEN "file" ELSE "url"
        n == IF d.files > 0 THEN d.files ELSE d.urls IN
    IF d.files = 0 /\ d.urls = 0
    THEN Ret(Logged(s, "fail", i, NoArt), "raise", NoArt)
    ELSE IF g.k < n
    THEN IF i \in f THEN Ret(Logged(s, "fail", i, NoArt), "raise", NoArt)
         ELSE
         LET a == Art(org, i, g.inv, g.k + 1)
             s1 == [s EXCEPT !.gens[i].k = @ + 1] IN
         Ret(Emit(Logged(s1, "yield", i, a), i, a), "val", a)
    ELSE Ret(Finish(s, i), "stop", NoArt)

\* inner() of decorators.stream: the generator of the decorated function
inner(i, s, f) ==
    IF stages[i].kind = "add" THEN add_cli(i, s, f) ELSE stream_own(i, s, f)

\* chain(stream.stream, inner()) of decorators.stream
stream_next(i, s, f) ==
    LET s0 == Logged(s, "pull", i, NoArt) IN
    IF s.gens[i].fin THEN Ret(s, "stop", NoArt)
    ELSE IF ~s.gens[i].up THEN inner(i, s0, f)
    ELSE Only({
         CASE r.res = "val" ->
                LET b == Applied(r.val, i) IN Ret(Emit(r.s, i, b), "val", b)
           [] r.res = "stop" ->
                inner(i, [r.s EXCEPT !.gens[i].up = FALSE], f)
           [] OTHER -> r
         : r \in {Pull(i - 1, s0, f)} })

\* desktop._set_desktop: copy into the wallpaper directory, update the
\* settings store, return the file
_set_desktop(i, s, a) ==
    [Logged(s, "set", i, a) EXCEPT !.bg = a]

\* desktop._get_desktop: the current wallpaper, loaded as a new artifact
_get_desktop(i, s) == Art("desk", i, s.bg.inv, s.bg.k)

\* dispatch without the test 'if file is None'
dispatch_always_get(i, s, f) ==
    IF s.gens[i].fin THEN Ret(s, "stop", NoArt)
    ELSE Only({
         CASE r.res = "val" ->
                LET b == Applied(r.val, i)
                    s1 == [r.s EXCEPT !.gens[i].file = TRUE] IN
                Ret(Emit(_set_desktop(i, s1, r.val), i, b), "val", b)
           [] r.res = "stop" ->
                LET a == _get_desktop(i, r.s) IN
                Ret(Emit(Finish(Logged(r.s, "get", i, a), i), i, a), "val", a)
           [] OTHER -> r
         : r \in {Pull(i - 1, Logged(s, "pull", i, NoArt), f)} })

\* dispatch that looks at one element to choose its mode, drops it, and
\* starts the chosen mode with the next one
dispatch_probe(i, s, f) ==
    IF s.gens[i].fin THEN Ret(s, "stop", NoArt)
    ELSE Only({
         CASE r.res = "val" ->
                LET b == Applied(r.val, i) IN
                Ret(Emit(_set_desktop(i, r.s, r.val), i, b), "val", b)
           [] r.res = "stop" ->
                IF r.s.gens[i].file THEN Ret(Finish(r.s, i), "stop", NoArt)
                ELSE LET a == _get_desktop(i, r.s) IN
                     Ret(Emit(Finish(Logged(r.s, "get", i, a), i), i, a),
                         "val", a)
           [] OTHER -> r
         : r \in {Pull(i - 1,
                    Logged(IF s.gens[i].file THEN s
                           ELSE Only({[p.s EXCEPT !.gens[i].file =
                                                      (p.res = "val")]
                                  : p \in {Pull(i - 1,
                                        Logged(s, "pull", i, NoArt), f)} }),
                           "pull", i, NoArt), f)} })

\* desktop.cli.dispatch
dispatch_next(i, s, f) ==
    IF s.gens[i].fin THEN Ret(s, "stop", NoArt)
    ELSE Only({
         CASE r.res = "val" ->
                IF i \in f
                THEN Ret(Logged([r.s EXCEPT !.gens[i].file = TRUE],
                                "fail", i, r.val), "raise", NoArt)
                ELSE LET b == Applied(r.val, i)
                         s1 == [r.s EXCEPT !.gens[i].file = TRUE] IN
                     Ret(Emit(_set_desktop(i, s1, r.val), i, b), "val", b)
           [] r.res = "stop" ->
                IF r.s.gens[i].file THEN Ret(Finish(r.s, i), "stop", NoArt)
                ELSE IF i \in f
                THEN Ret(Logged(r.s, "fail", i, NoArt), "raise", NoArt)
                ELSE LET a == _get_desktop(i, r.s) IN
                     Ret(Emit(Finish(Logged(r.s, "get", i, a), i), i, a),
                         "val", a)
           [] OTHER -> r
         : r \in {Pull(i - 1, Logged(s, "pull", i, NoArt), f)} })

\* every.cli.wrapper._repeat behind its generator expression
_repeat(i, s, f) ==
    IF s.gens[i].fin THEN Ret(s, "stop", NoArt)
    ELSE Only({
         CASE r.res = "stop" -> Ret(Finish(r.s, i), "stop", NoArt)
           [] r.res = "val" ->
                LET b == Applied(r.val, i) IN
                Ret(Emit(Logged(r.s, "nap", i, r.val), i, b), "val", b)
           [] OTHER -> r
         : r \in {Pull(i - 1, Logged(s, "pull", i, NoArt), f)} })

\* cli.repeat behind make_generator
repeat_next(i, s, f) ==
    IF s.gens[i].fin THEN Ret(s, "stop", NoArt)
    ELSE Only({
         CASE r.res = "stop" -> Ret(Finish(r.s, i), "stop", NoArt)
           [] r.res = "val" ->
                LET b == Applied(r.val, i)
                    s1 == [r.s EXCEPT !.repeat = TRUE,
                                      !.interval = stages[i].secs] IN
                Ret(Emit(Logged(s1, "flag", i, r.val), i, b), "val", b)
           [] OTHER -> r
         : r \in {Pull(i - 1, Logged(s, "pull", i, NoArt), f)} })

Pull(i, s, f) ==
    IF i = 0 THEN seed_next(s, f)
    ELSE CASE stages[i].kind = "transform" -> generator_next(i, s, f)
           [] stages[i].kind = "source" -> stream_next(i, s, f)
           [] stages[i].kind = "add" -> stream_next(i, s, f)
           [] stages[i].kind = "sink" -> dispatch_next(i, s, f)
           [] stages[i].kind = "every" -> _repeat(i, s, f)
           [] stages[i].kind = "repeat" -> repeat_next(i, s, f)

\* ------------------------------------------------------ process_pipeline
\* a driver that only has the while loop
process_pipeline_loop_only == "check"

\* process_pipeline: 'do at least once': the first process_stream() call
process_pipeline == "compose"

\* @click.group(chain=True), no invoke_without_command: without a subcommand
\* click prints the help text or fails with 'Missing command.'; neither the
\* group function nor the result callback process_pipeline is called
cli_group(n) == IF n = 0 THEN "usage" ELSE process_pipeline

\* a guard that reports the error and lets the driver go on to the loop test
catch_errors_resume == "sleep"

\* decorators.catch_errors: except Exception: fail(str(error)); exit(1)
catch_errors == "exit"

\* a loop that is left whatever the flag says
while_once(r) == "done"

\* while obj.repeat: process_stream()
while_repeat(r) == IF r THEN "compose" ELSE "done"

\* sleep(obj.interval) if obj.interval else ...
sleep_interval(iv) == iv # 0

\* ------------------------------------------- files and the settings store
\* a path: the directory it is in, and its name split as pathlib does into
\* stem and suffix (without the dot).  Directories live in "home"; the
\* directory "." is the working directory of a path not yet resolved.
P(dir, stem, ext) == [dir |-> dir, stem |-> stem, ext |-> ext]
None == P("", "", "")
Odd == P("?", "?", "")          \* a string that names no file

WALLSY_MEDIA_DIR == P("home", "wallsy", "")
WALLSY_WALLPAPER_DIR == P("home", "backgrounds", "")
cwd == WALLSY_MEDIA_DIR         \* where the tool is started
Dirs == {WALLSY_MEDIA_DIR, WALLSY_WALLPAPER_DIR, cwd}

Files ==
    {P("wallsy", "cat", "jpg"), P("wallsy", "cat", "jpeg"),
     P("backgrounds", "cat", "jpg"), P("home", "wallsy", "jpeg")}
Contents == {"none", "imgA", "imgB", "txt"}
FileSystems == [Files -> Contents]

\* pathlib: parent / name; joining the empty name gives the parent itself
Join(d, stem, ext) == IF stem = "" /\ ext = "" THEN d ELSE P(d.stem, stem, ext)
Parent(p) == P("home", p.dir, "")
\* Path.expanduser().resolve()
resolve(p) ==
    IF p.dir # "." THEN p
    ELSE IF p.stem = "" /\ p.ext = "" THEN cwd ELSE P(cwd.stem, p.stem, p.ext)

is_dir(p) == p \in Dirs
is_file(f, p) == p \in Files /\ f[p] # "none"
exists(f, p) == is_dir(p) \/ is_file(f, p)
\* PIL.Image.open / imghdr.what recognise the content
is_image(f, p) == is_file(f, p) /\ f[p] \in {"imgA", "imgB"}

\* a string that holds a path: quote characters at its ends, what stands in
\* front of the path ("", "//", "file:" or "file://"), and the path
Str(ql, lead, path, qr) == [ql |-> ql, lead |-> lead, path |-> path, qr |-> qr]
str(p) == Str(FALSE, "", p, FALSE)
as_uri(p) == Str(FALSE, "file://", p, FALSE)
NoStr == Str(FALSE, "", None, FALSE)

\* str.removeprefix
removeprefix(s, tok) ==
    CASE tok = "'" -> [s EXCEPT !.ql = FALSE]
      [] tok = "file://" ->
            IF ~s.ql /\ s.lead = "file://" THEN [s EXCEPT !.lead = ""] ELSE s
      [] tok = "file:" ->
            IF ~s.ql /\ s.lead = "file://" THEN [s EXCEPT !.lead = "//"]
            ELSE IF ~s.ql /\ s.lead = "file:" THEN [s EXCEPT !.lead = ""]
            ELSE s
\* str.removesuffix
removesuffix(s, tok) == IF tok = "'" THEN [s EXCEPT !.qr = FALSE] ELSE s

\* pathlib.Path(string): "///dir/name" is "/dir/name"; a string with quotes
\* or a scheme left in it is a relative path to nothing
ToPath(s) ==
    IF s.ql \/ s.qr THEN Odd
    ELSE IF s.lead = "" THEN s.path
    ELSE IF s.lead = "//" /\ s.path.dir # "." THEN s.path
    ELSE Odd

\* what a library function leaves behind and hands back
Outcome(f, st, res, err, val, warned) ==
    [fs |-> f, store |-> st, res |-> res, err |-> err, val |-> val,
     warned |-> warned]

\* image_handler.validate_image
validate_image(f, p) == IF is_image(f, p) THEN "ok" ELSE "InvalidImageError"

\* shutil.copy2(src, dst) / Image.save(dst)
copy2(f, src, dst) == [f EXCEPT ![dst] = f[src]]
save(f, dst, content) == [f EXCEPT ![dst] = content]

\* utils._load_file
_load_file(f, st, file0) ==
    LET file == resolve(file0)
        dest_path == Join(WALLSY_MEDIA_DIR, file.stem, file.ext) IN
    IF validate_image(f, file) # "ok"
    THEN Outcome(f, st, "raise", "WallsyLoadError", None, FALSE)
    ELSE IF file = dest_path                      \* shutil.SameFileError
    THEN Outcome(f, st, "ok", "", dest_path, TRUE)
    ELSE Outcome(copy2(f, file, dest_path), st, "ok", "", dest_path, FALSE)

\* a URL and the response requests.get hands back (redirects followed)
Url(host, stem, ext) == [host |-> host, stem |-> stem, ext |-> ext]
Response(err, url, content) == [err |-> err, url |-> url, content |-> content]

\* a download that writes the body to the file before it looks at it
download_image_save_first(f, st, url, file_path, r) ==
    IF exists(f, file_path)
    THEN Outcome(f, st, "raise", "ImageDownloadError", None, FALSE)
    ELSE IF r.err \in {"RequestException", "HTTPError"}
    THEN Outcome(f, st, "raise", "ImageDownloadError", None, FALSE)
    ELSE LET renamed == IF url # r.url
                        THEN Join(Parent(file_path), r.url.stem, r.url.ext)
                        ELSE file_path
             target == IF renamed.ext = "" THEN [renamed EXCEPT !.ext = "jpeg"]
                       ELSE renamed IN
         IF r.err = "UnidentifiedImageError"
         THEN Outcome(save(f, target, "txt"), st, "raise",
                      "ImageDownloadError", None, FALSE)
         ELSE Outcome(save(f, target, r.content), st, "ok", "", target, FALSE)

\* image_handler.download_image
download_image(f, st, url, file_path, r) ==
    LET destination_path == resolve(file_path) IN
    IF exists(f, destination_path)     \* a directory or a file is there
    THEN Outcome(f, st, "raise", "ImageDownloadError", None, FALSE)
    ELSE IF r.err # ""                 \* requests.get, raise_for_status, Image.open
    THEN Outcome(f, st, "raise", "ImageDownloadError", None, FALSE)
    ELSE LET renamed == IF url # r.url
                        THEN Join(Parent(destination_path), r.url.stem, r.url.ext)
                        ELSE destination_path
             target == IF renamed.ext = "" THEN [renamed EXCEPT !.ext = "jpeg"]
                       ELSE renamed IN
         Outcome(save(f, target, r.content), st, "ok", "", target, FALSE)

\* an update that does not ask imghdr
update_wallpaper_unchecked(f, st, img_path, ok) ==
    LET wallpaper_location == resolve(ToPath(removeprefix(img_path, "file:"))) IN
    IF ~exists(f, wallpaper_location) \/ ~is_file(f, wallpaper_location)
    THEN Outcome(f, st, "raise", "WallpaperUpdateError", None, FALSE)
    ELSE IF ~ok
    THEN Outcome(f, st, "raise", "WallpaperUpdateError", None, FALSE)
    ELSE Outcome(f, str(wallpaper_location), "ok", "", None, FALSE)

\* wallpaper_handler.update_wallpaper; ok: gsettings set returns status 0
update_wallpaper(f, st, img_path, ok) ==
    LET wallpaper_location == resolve(ToPath(removeprefix(img_path, "file:"))) IN
    IF ~exists(f, wallpaper_location) \/ ~is_file(f, wallpaper_location)
    THEN Outcome(f, st, "raise", "WallpaperUpdateError", None, FALSE)
    ELSE IF ~is_image(f, wallpaper_location)       \* imghdr.what(...) is None
    THEN Outcome(f, st, "raise", "WallpaperUpdateError", None, FALSE)
    ELSE IF ~ok                                    \* CalledProcessError
    THEN Outcome(f, st, "raise", "WallpaperUpdateError", None, FALSE)
    ELSE Outcome(f, str(wallpaper_location), "ok", "", None, FALSE)

\* a reader that hands back what gsettings printed
get_current_wallpaper_raw(f, st, ok) ==
    IF ~ok THEN Outcome(f, st, "raise", "WallpaperUpdateError", None, FALSE)
    ELSE Outcome(f, st, "ok", "", ToPath([st EXCEPT !.ql = TRUE, !.qr = TRUE]),
                 FALSE)

\* wallpaper_handler.get_current_wallpaper; gsettings prints the value in
\* single quotes
get_current_wallpaper(f, st, ok) ==
    IF ~ok THEN Outcome(f, st, "raise", "WallpaperUpdateError", None, FALSE)
    ELSE LET stdout == [st EXCEPT !.ql = TRUE, !.qr = TRUE] IN
         Outcome(f, st, "ok", "",
                 ToPath(removesuffix(removeprefix(removeprefix(stdout, "'"),
                                                  "file://"), "'")),
                 FALSE)

\* a 'set' that copies whatever is in the wallpaper directory
_set_desktop_always_copy(f, st, file, ok) ==
    LET target == Join(WALLSY_WALLPAPER_DIR, file.stem, file.ext) IN
    IF ~is_file(f, file)
    THEN Outcome(f, st, "raise", "FileNotFoundError", None, FALSE)
    ELSE LET o == update_wallpaper(IF file = target THEN f
                                   ELSE copy2(f, file, target),
                                   st, str(target), ok) IN
         IF o.res = "ok" THEN [o EXCEPT !.val = file] ELSE o

\* desktop._set_desktop on the files: copy unless the name is taken, update
\* the settings store, return the file
_set_desktop_path(f, st, file, ok) ==
    LET target == Join(WALLSY_WALLPAPER_DIR, file.stem, file.ext)
        free == ~exists(f, target) IN
    IF free /\ ~is_file(f, file)
    THEN Outcome(f, st, "raise", "FileNotFoundError", None, FALSE)
    ELSE LET o == update_wallpaper(IF free THEN copy2(f, file, target) ELSE f,
                                   st, str(target), ok) IN
         IF o.res = "ok" THEN [o EXCEPT !.val = file, !.warned = ~free]
         ELSE [o EXCEPT !.warned = ~free]

\* desktop._get_desktop on the files: the current wallpaper, loaded
_get_desktop_path(f, st, ok) ==
    LET o == get_current_wallpaper(f, st, ok) IN
    IF o.res # "ok" THEN o ELSE _load_file(f, st, o.val)

\* desktop.cli.dispatch run to its end over a list of files; file is the
\* local variable of that name, outs what has been yielded
RECURSIVE dispatch(_, _, _, _, _, _)
dispatch(f, st, files, ok, file, outs) ==
    IF files = <<>>                                     \* StopIteration
    THEN IF file = None
         THEN LET o == _get_desktop_path(f, st, ok) IN
              [o EXCEPT !.val = IF o.res = "ok" THEN Append(outs, o.val)
                                ELSE outs]
         ELSE Outcome(f, st, "ok", "", outs, FALSE)
    ELSE IF Head(files) = None          \* while file := next(stream) is false
    THEN Outcome(f, st, "ok", "", outs, FALSE)
    ELSE LET o == _set_desktop_path(f, st, Head(files), ok) IN
         IF o.res # "ok" THEN [o EXCEPT !.val = outs]
         ELSE dispatch(o.fs, o.store, Tail(files), ok, Head(files),
                       Append(outs, o.val))

\* decorators.require_file
require_file(file) == IF file = None THEN "raise" ELSE "ok"

\* show.cli behind generator: (func(file) for file in stream), func being
\* catch_errors(require_file(show)), run to its end over a list of files
RECURSIVE show(_, _, _, _)
show(f, st, files, outs) ==
    IF files = <<>> THEN Outcome(f, st, "ok", "", outs, FALSE)
    ELSE IF require_file(Head(files)) = "raise"
    THEN Outcome(f, st, catch_errors, "MissingInput", outs, FALSE)
    ELSE show(f, st, Tail(files), Append(outs, Head(files)))

\* the state the library functions start from and leave behind
NoFiles == [p \in Files |-> "none"]
DefaultStore == as_uri(P("backgrounds", "cat", "jpg"))
NoCall == [op |-> "", arg |-> None, aux |-> None, res |-> "", err |-> "",
           val |-> None, warned |-> FALSE]

NoOut == [i \in 0..MaxStages + 1 |-> <<>>]

Init ==
    /\ stages \in Pipelines
    /\ seed \in Seeds
    /\ pc = cli_group(Len(stages))
    /\ idx = 0
    /\ cycle = 1
    /\ passes = 0
    /\ seedPos = 0
    /\ gens = <<>>
    /\ out = NoOut
    /\ log = <<>>
    /\ repeat = FALSE
    /\ interval = 0
    /\ bg = DefaultBg
    /\ inv = 0
    /\ fs = NoFiles
    /\ store = DefaultStore
    /\ ret = NoCall

\* for callback in callbacks: stream = callback(stream)
Compose ==
    /\ pc = "compose"
    /\ idx < Len(stages)
    /\ Install(callback(idx + 1, Cur))
    /\ idx' = idx + 1
    /\ UNCHANGED <<stages, seed, pc, cycle, passes, fs, store, ret>>

\* for _ in stream: the loop is entered
StartDrain ==
    /\ pc = "compose"
    /\ idx = Len(stages)
    /\ pc' = "drain"
    /\ passes' = passes + 1
    /\ UNCHANGED <<stages, seed, idx, cycle, seedPos, gens, out, log,
                   repeat, interval, bg, inv, fs, store, ret>>

\* for _ in stream: one next() on the composed generator; an exception a
\* guard has not caught leaves process_pipeline (traceback, status 1)
Drain ==
    /\ pc = "drain"
    /\ \E f \in {{}} \cup {{i} : i \in 0..Len(stages)} :
         \E r \in {Pull(Len(stages), Cur, f)} :
         /\ r.res # "cut"
         /\ Install(r.s)
         /\ pc' = CASE r.res = "val" -> "drain"
                    [] r.res = "stop" -> "sleep"
                    [] r.res = "exit" -> catch_errors
                    [] OTHER -> "raise"
    /\ UNCHANGED <<stages, seed, idx, cycle, passes, fs, store, ret>>

\* sleep(obj.interval) if obj.interval else ...
Sleep ==
    /\ pc = "sleep"
    /\ log' = IF sleep_interval(interval)
              THEN Append(log, Event("sleep", 0, cycle, NoArt)) ELSE log
    /\ pc' = "check"
    /\ UNCHANGED <<stages, seed, idx, cycle, passes, seedPos, gens, out,
                   repeat, interval, bg, inv, fs, store, ret>>

\* while obj.repeat: the next process_stream() starts from obj.stream
Again ==
    /\ pc = "check"
    /\ while_repeat(repeat) = "compose"
    /\ cycle < MaxCycles
    /\ pc' = "compose"
    /\ cycle' = cycle + 1
    /\ idx' = 0
    /\ gens' = <<>>
    /\ out' = NoOut
    /\ UNCHANGED <<stages, seed, passes, seedPos, log, repeat, interval,
                   bg, inv, fs, store, ret>>

\* the loop condition is false: process_pipeline returns, exit status 0
Return ==
    /\ pc = "check"
    /\ while_repeat(repeat) = "done"
    /\ pc' = "done"
    /\ UNCHANGED <<stages, seed, idx, cycle, passes, seedPos, gens, out,
                   log, repeat, interval, bg, inv, fs, store, ret>>

Next == Compose \/ StartDrain \/ Drain \/ Sleep \/ Again \/ Return

Spec == Init /\ [][Next]_vars

FairSpec == Spec /\ WF_vars(Next)

\* the same driver started on the chains around an 'add' subcommand
AddInit ==
    /\ stages \in AddPipelines
    /\ seed \in Seeds
    /\ pc = cli_group(Len(stages))
    /\ idx = 0
    /\ cycle = 1
    /\ passes = 0
    /\ seedPos = 0
    /\ gens = <<>>
    /\ out = NoOut
    /\ log = <<>>
    /\ repeat = FALSE
    /\ interval = 0
    /\ bg = DefaultBg
    /\ inv = 0
    /\ fs = NoFiles
    /\ store = DefaultStore
    /\ ret = NoCall

AddSpec == AddInit /\ [][Next]_vars

\* ------------------------------------------------- the library functions
\* The functions the stages call, applied one after another to the files
\* and the settings store; the pipeline stands still.
Call(op, arg, aux, o) ==
    [op |-> op, arg |-> arg, aux |-> aux, res |-> o.res, err |-> o.err,
     val |-> o.val, warned |-> o.warned]

Effect(o) ==
    /\ fs' = o.fs
    /\ store' = o.store
    /\ UNCHANGED pipeVars

\* the files a user names on the command line
Given == {P("wallsy", "cat", "jpg"), P("backgrounds", "cat", "jpg")}
Urls == {Url("a", "cat", "")}
Effective == Urls \cup {Url("b", "cat", "jpg"), Url("b", "cat", ""),
                        Url("b", "", "")}
Responses ==
    {Response(e, u, "none") :
        e \in {"RequestException", "HTTPError", "UnidentifiedImageError"},
        u \in Urls}
    \cup {Response("", u, "imgB") : u \in Effective}
Wanted == {P("wallsy", "cat", ""), P("wallsy", "cat", "jpg")}
PathArgs ==
    {str(p) : p \in Files \cup {P(".", "cat", "jpg"), P(".", "", ""),
                                WALLSY_WALLPAPER_DIR, P("wallsy", "dog", "jpg")}}
    \cup {as_uri(p) : p \in {P("wallsy", "cat", "jpg"),
                             P("backgrounds", "cat", "jpg")}}
    \cup {Str(FALSE, "file:", P("wallsy", "cat", "jpg"), FALSE)}
Streams == UNION {[1..n -> {None, P("wallsy", "cat", "jpg")}] : n \in 0..2}

IoInit ==
    /\ stages = <<>>
    /\ seed = <<>>
    /\ pc = cli_group(0)
    /\ idx = 0
    /\ cycle = 1
    /\ passes = 0
    /\ seedPos = 0
    /\ gens = <<>>
    /\ out = NoOut
    /\ log = <<>>
    /\ repeat = FALSE
    /\ interval = 0
    /\ bg = DefaultBg
    /\ inv = 0
    /\ fs \in FileSystems
    /\ store = DefaultStore
    /\ ret = NoCall

LoadFile ==
    \E file \in Given :
        LET o == _load_file(fs, store, file) IN
        /\ ret' = Call("_load_file", file, None, o)
        /\ Effect(o)

Download ==
    \E url \in Urls, file_path \in Wanted, r \in Responses :
        LET o == download_image(fs, store, url, file_path, r) IN
        /\ ret' = Call("download_image",
                       [url |-> url, file_path |-> file_path], r, o)
        /\ Effect(o)

SetDesktop ==
    \E file \in Given, ok \in BOOLEAN :
        LET o == _set_desktop_path(fs, store, file, ok) IN
        /\ ret' = Call("_set_desktop", file, ok, o)
        /\ Effect(o)

UpdateWallpaper ==
    \E img_path \in PathArgs, ok \in BOOLEAN :
        LET o == update_wallpaper(fs, store, img_path, ok) IN
        /\ ret' = Call("update_wallpaper", img_path, ok, o)
        /\ Effect(o)

\* since: the argument of the update_wallpaper call that has just succeeded
GetWallpaper ==
    \E ok \in BOOLEAN :
        LET o == get_current_wallpaper(fs, store, ok)
            since == IF ret.op = "update_wallpaper" /\ ret.res = "ok"
                     THEN ret.arg ELSE NoStr IN
        /\ ret' = Call("get_current_wallpaper", None,
                       [ok |-> ok, since |-> since], o)
        /\ Effect(o)

RunDispatch ==
    \E s \in Streams :
        LET o == dispatch(fs, store, s, TRUE, None, <<>>) IN
        /\ ret' = Call("dispatch", s, TRUE, o)
        /\ Effect(o)

RunShow ==
    \E s \in Streams :
        LET o == show(fs, store, s, <<>>) IN
        /\ ret' = Call("show", s, TRUE, o)
        /\ Effect(o)

IoNext ==
    \/ LoadFile
    \/ Download
    \/ SetDesktop
    \/ UpdateWallpaper
    \/ GetWallpaper
    \/ RunDispatch
    \/ RunShow

IoSpec == IoInit /\ [][IoNext]_vars

\* ------------------------------------------------------------ properties
EventsOf(ev, i, c) ==
    SelectSeq(log, LAMBDA e : e.ev = ev /\ e.st = i /\ e.c = c)
ArtsOf(ev, i, c) ==
    LET es == EventsOf(ev, i, c) IN [k \in 1..Len(es) |-> es[k].a]
StagesOf(kind) == {i \in 1..Len(stages) : stages[i].kind = kind}
\* the drain loop of the current cycle has run to exhaustion
PassComplete == pc \in {"sleep", "check", "done"}

\* C1: a desktop stage whose upstream ends without an artifact runs 'get'
\* exactly once and yields exactly that one artifact; a desktop stage whose
\* upstream yields n >= 1 artifacts runs 'set' once per artifact, in order,
\* never runs 'get', and yields exactly those n artifacts.
C1_SinkDispatch ==
    \A i \in StagesOf("sink") :
        LET up == out[i - 1]
            gets == ArtsOf("get", i, cycle)
            sets == ArtsOf("set", i, cycle) IN
        /\ Len(gets) <= 1
        /\ Len(gets) = 1 => /\ up = <<>>
                            /\ sets = <<>>
                            /\ out[i] = gets
        /\ Len(gets) = 0 => out[i] = [k \in 1..Len(sets) |-> Applied(sets[k], i)]
        /\ Len(sets) <= Len(up)
        /\ \A k \in 1..Len(sets) : sets[k] = up[k]
        /\ PassComplete => /\ up = <<>> => Len(gets) = 1
                           /\ up # <<>> => Len(gets) = 0 /\ sets = up

\* a pass in which one desktop stage ran 'get' on an empty stream and a
\* later one ran 'set' on three artifacts
C1_Witness ==
    /\ PassComplete
    /\ \E i, j \in StagesOf("sink") :
         /\ out[i - 1] = <<>> /\ Len(out[i]) = 1
         /\ Len(out[j - 1]) = 3 /\ Len(ArtsOf("set", j, cycle)) = 3

Top == Len(stages)
Hops(from, to) == [j \in 1..(to - from) |-> from + j]
Passed(seq, i) == [k \in 1..Len(seq) |-> Applied(seq[k], i)]

\* C2: a pipeline of Transform stages only yields one output per input,
\* and the k-th output is the k-th input with the stage functions applied
\* in declared order.
C2_TransformOrder ==
    (Top >= 1 /\ StagesOf("transform") = 1..Top) =>
        /\ Len(out[Top]) <= Len(seed)
        /\ \A k \in 1..Len(out[Top]) :
              out[Top][k] = [seed[k] EXCEPT !.via = Hops(0, Top)]
        /\ PassComplete => Len(out[Top]) = Len(seed)

C2_Witness ==
    /\ PassComplete
    /\ Top = 3 /\ StagesOf("transform") = 1..Top
    /\ Len(seed) = 3 /\ Len(out[Top]) = 3

\* C3: while the callbacks are folded nothing is pulled and no stage body
\* runs: the cycle has no pull, load, exec, yield, get, set or sleep yet.
C3_LazyCompose ==
    pc = "compose" =>
        /\ \A j \in 1..Len(log) : log[j].c # cycle
        /\ out = NoOut

\* all stages folded, one of them a never-ending Source, seeds waiting
C3_Witness ==
    /\ pc = "compose" /\ idx = Top /\ Top >= 2
    /\ \E i \in StagesOf("source") : stages[i].endless
    /\ seedPos < Len(seed)

C5_DeclaredOrder ==
    \A i \in 0..Top :
        /\ \A k \in 1..Len(out[i]) :
              out[i][k].via = Hops(out[i][k].st, i)
        /\ PassComplete =>
              Len(SelectSeq(out[Top], LAMBDA a : a.st <= i)) = Len(out[i])

\* a seed and a Source artifact, the Source in the middle of three stages
C5_Witness ==
    /\ PassComplete /\ Top = 3
    /\ stages[2].kind = "source" /\ stages[1].kind = "transform"
    /\ stages[3].kind = "transform"
    /\ \E k, l \in 1..Len(out[Top]) :
         /\ out[Top][k].st = 0 /\ out[Top][l].st = 2 /\ k < l

\* C6 (as claimed): every cycle delivers the seed artifacts to the stages:
\* when the drain loop of a cycle has run to exhaustion, the seed generator
\* has yielded every seed in that cycle.
C6_FreshSeeds == PassComplete => out[0] = seed

\* C7: a Source stage gets a new invocation in every cycle: the artifacts
\* it yields within one cycle come from one invocation, artifacts of
\* different cycles (and of different stages) from different invocations,
\* and in a cycle that runs to exhaustion its body has run exactly once.
C7_SourcePerCycle ==
    /\ \A j, l \in 1..Len(log) :
          (log[j].ev = "yield" /\ log[l].ev = "yield") =>
              ((log[j].st = log[l].st /\ log[j].c = log[l].c)
                   <=> log[j].a.inv = log[l].a.inv)
    /\ \A i \in StagesOf("source") :
          (PassComplete /\ ~stages[i].endless) =>
              ArtsOf("yield", i, cycle) =
                  [k \in 1..stages[i].cnt |-> Art("src", i, gens[i].inv, k)]

\* the second cycle has run a Source that also ran in the first
C7_Witness ==
    /\ cycle = 2 /\ PassComplete
    /\ \E i \in StagesOf("source") :
         /\ ArtsOf("yield", i, 1) # <<>>
         /\ ArtsOf("yield", i, 2) # <<>>

\* C8 (as claimed): no sleep happens inside a drain pass, and when a new
\* cycle starts exactly one sleep has happened since the previous drain
\* pass ended.
C8_InterCycleSleep ==
    /\ \A j \in 1..Len(log) : log[j].ev # "nap"
    /\ (pc = "compose" /\ cycle > 1) =>
          Len(EventsOf("sleep", 0, cycle - 1)) = 1

Terminated == pc \in {"done", "exit", "raise", "usage"}
Finite == \A i \in StagesOf("source") : ~stages[i].endless

\* C9 (as claimed): every invocation, also one without stages, has at least
\* one drain pass, and exactly one when repeat is not set.
C9_AlwaysOnePass ==
    Terminated => (passes >= 1 /\ (~repeat => passes = 1))

\* C9 (amended): an invocation that names at least one stage has at least
\* one drain pass; if repeat is not set by the end of the first pass there
\* is exactly one pass and, for finite seeds and Sources, the run ends.
\* Without a stage process_pipeline is never reached and nothing is drained.
C9_OnePassWithStages ==
    /\ [](Top = 0 => (pc = "usage" /\ passes = 0))
    /\ []((Top >= 1 /\ Terminated) => passes >= 1)
    /\ []((Top >= 1 /\ ~repeat) => passes <= 1)
    /\ [](pc = "done" => passes = 1)
    /\ <>((Top >= 1 /\ Finite) => (repeat \/ Terminated))

\* a run without repeat that has returned after its single pass
C9_Witness == pc = "done" /\ passes = 1 /\ ~repeat /\ Len(out[Top]) >= 2

Failed == log # <<>> /\ log[Len(log)].ev = "fail"

C12_EveryErrorReported == pc = "raise" => log[Len(log)].st = 0

HasNone(s) == \E k \in 1..Len(s) : s[k] = None

\* C13 (as claimed): a Transform under require_file or the desktop Sink that
\* is handed None among its files ends with an error at that stage and
\* yields no None; it does not end its iteration without an error.
C13_RequiredInput ==
    (ret.op \in {"show", "dispatch"} /\ HasNone(ret.arg)) =>
        /\ ret.res \in {"exit", "raise"}
        /\ ~HasNone(ret.val)

\* C14 (as claimed): when a file of the name is already in the media
\* directory, be it the file handed in or another one, _load_file copies
\* nothing: the bytes of that file, and of every other file, stay as they
\* were.
C14_NoOverwriteOnLoad ==
    [][(ret'.op = "_load_file"
        /\ exists(fs, Join(WALLSY_MEDIA_DIR, ret'.arg.stem, ret'.arg.ext)))
       => fs' = fs]_vars

\* C15 (as claimed): download_image changes no file that was there before
\* the call, and it saves only to a path where no file was.
C15_NoOverwriteOnDownload ==
    [][ret'.op = "download_image" =>
           /\ \A p \in Files : fs[p] # "none" => fs'[p] = fs[p]
           /\ ret'.res = "ok" => ~exists(fs, ret'.val)]_vars

\* C16 (as claimed): a download that succeeds saves in the directory of the
\* requested destination, under the last path component of the effective
\* URL when that URL differs from the requested one and under the requested
\* name otherwise, with the format extension added to a name without one,
\* and returns that path.
C16_RedirectNaming ==
    (ret.op = "download_image" /\ ret.res = "ok") =>
        LET name == IF ret.aux.url # ret.arg.url THEN ret.aux.url
                    ELSE ret.arg.file_path
            expected == P(ret.arg.file_path.dir, name.stem,
                          IF name.ext = "" THEN "jpeg" ELSE name.ext) IN
        /\ ret.val = expected
        /\ fs[ret.val] = ret.aux.content

\* C17: a download that fails by a transport error, a bad status or a body
\* that is no image raises ImageDownloadError and changes no file.
C17_FailedDownloadLeavesNothing ==
    [][(ret'.op = "download_image" /\ ret'.aux.err # "")
       => (ret'.res = "raise" /\ ret'.err = "ImageDownloadError"
           /\ fs' = fs)]_vars

\* the body was no image and the destination was free
C17_Witness ==
    /\ ret.op = "download_image" /\ ret.res = "raise"
    /\ ret.aux.err = "UnidentifiedImageError"
    /\ ~exists(fs, ret.arg.file_path)

\* C18: a 'set' that succeeds has copied the file into the wallpaper
\* directory if the name was free there, and has changed no file and warned
\* if it was taken; the settings store then holds the absolute path of the
\* file in the wallpaper directory, and the file handed in is handed back.
\* No 'set', failed or not, changes a file that was there before.
C18_DesktopSet ==
    /\ [][(ret'.op = "_set_desktop" /\ ret'.res = "ok") =>
             LET file == ret'.arg
                 target == Join(WALLSY_WALLPAPER_DIR, file.stem, file.ext) IN
             /\ IF exists(fs, target) THEN fs' = fs /\ ret'.warned
                ELSE fs' = [fs EXCEPT ![target] = fs[file]] /\ ~ret'.warned
             /\ store' = str(target)
             /\ ret'.val = file]_vars
    /\ [][ret'.op = "_set_desktop" =>
             \A p \in Files : fs[p] # "none" => fs'[p] = fs[p]]_vars

\* the name was taken by a file with other content, which is still there
C18_Witness ==
    /\ ret.op = "_set_desktop" /\ ret.res = "ok" /\ ret.warned
    /\ ret.arg = P("wallsy", "cat", "jpg")
    /\ fs[ret.arg] # fs[P("backgrounds", "cat", "jpg")]

\* C19: get_current_wallpaper called after update_wallpaper(p) has succeeded
\* returns the absolute path of p, free of quotes and of the URI scheme,
\* whether p was given as a path, relative or absolute, or as a file: URI.
C19_SetThenGet ==
    (ret.op = "get_current_wallpaper" /\ ret.res = "ok"
     /\ ret.aux.since # NoStr) => ret.val = resolve(ret.aux.since.path)

\* the round trip of a path given in URI form
C19_Witness ==
    /\ ret.op = "get_current_wallpaper" /\ ret.res = "ok"
    /\ ret.aux.since = as_uri(P("wallsy", "cat", "jpg"))

\* the argument names nothing, a directory (the empty path is the working
\* directory), or a file that is no image
InvalidArg(f, s) == ~is_image(f, resolve(s.path))

\* C20: update_wallpaper called with a path that is empty, does not exist,
\* is no regular file or no image raises WallpaperUpdateError and leaves the
\* settings store as it was.
C20_InvalidPathNoWrite ==
    [][(ret'.op = "update_wallpaper" /\ InvalidArg(fs, ret'.arg))
       => (ret'.res = "raise" /\ ret'.err = "WallpaperUpdateError"
           /\ store' = store)]_vars

\* a file that is no image was refused although gsettings would have worked
C20_Witness ==
    /\ ret.op = "update_wallpaper" /\ ret.res = "raise" /\ ret.aux
    /\ ret.arg = str(P("wallsy", "cat", "jpg"))
    /\ fs[P("wallsy", "cat", "jpg")] = "txt"

Schedulers == StagesOf("every") \cup StagesOf("repeat")

\* C21: repeat and interval are written by the 'every' stage only: in a
\* pipeline without one, repeat is false and interval unset in every state;
\* in any pipeline the flags change only while the callbacks are folded
\* (every.py) or an artifact is pulled through the chain (cli.repeat), and a
\* change of either flag leaves repeat set.
C21_OnlyEveryWritesFlags ==
    /\ [](Schedulers = {} => (~repeat /\ interval = 0))
    /\ [][(repeat' # repeat \/ interval' # interval)
            => (repeat' /\ pc \in {"compose", "drain"}
                /\ \E i \in Schedulers : i <= idx')]_vars

\* a run of Source, Transform and Sink stages has ended with the flag off
C21_Witness ==
    /\ pc = "done" /\ ~repeat /\ Top = 3
    /\ stages[1].kind = "source" /\ stages[2].kind = "transform"
    /\ stages[3].kind = "sink"

\* an artifact whatever stages it has passed
Id(a) == [a EXCEPT !.via = <<>>]
\* the stage bodies and loads of the current cycle, in the order they ran
Effects == SelectSeq(log, LAMBDA e : e.c = cycle /\ e.a # NoArt)
\* the events one step has added to the log
Added == {m \in (Len(log) + 1)..Len(log') : log'[m].a # NoArt}

\* C22: evaluation is pull-based and element-wise.  In the order the stage
\* bodies run, the effects for one artifact are not interleaved with those
\* for another and run through the stages in declared order; one next() of
\* the drain loop concerns one artifact only; and when the body of a Source
\* stage yields, everything that stage had handed on before has already
\* come out of the last stage and its upstream yields nothing more.
C22_ElementWise ==
    /\ [](\A j \in 1..(Len(Effects) - 1) :
            \/ /\ Id(Effects[j + 1].a) = Id(Effects[j].a)
               /\ Effects[j + 1].st > Effects[j].st
            \/ \A l \in 1..j : Id(Effects[l].a) # Id(Effects[j + 1].a))
    /\ [][pc = "drain" =>
            /\ \A m, n \in Added : Id(log'[m].a) = Id(log'[n].a)
            /\ \A m \in Added : log'[m].ev = "yield" =>
                  LET i == log'[m].st IN
                  /\ out'[i - 1] = out[i - 1]
                  /\ Len(out[Top]) = Len(out[i])
                  /\ \A k \in 1..Len(out[i]) :
                        out[Top][k] =
                            [out[i][k] EXCEPT !.via = @ \o Hops(i, Top)]]_vars

\* two seed artifacts and then a Source artifact have gone through a
\* Source stage followed by a Transform and a desktop stage
C22_Witness ==
    /\ PassComplete /\ Top = 3 /\ Len(seed) = 2
    /\ stages[1].kind = "source" /\ stages[2].kind = "transform"
    /\ stages[3].kind = "sink"
    /\ Len(out[3]) >= 3
    /\ Len(ArtsOf("exec", 2, cycle)) >= 3

\* what a stage did in the current cycle: its next() calls on the upstream
\* and the bodies it ran, in order
Steps(i) == SelectSeq(log, LAMBDA e : e.st = i /\ e.c = cycle)

\* C23: a desktop stage decides its mode after one upstream next(): 'get'
\* is preceded by exactly one pull.  An artifact that pull returns is set
\* and emitted like every other one (the first emitted artifact is the first
\* upstream artifact), and the stage never pulls again before the artifact
\* it holds has been set: it is at most one element ahead of its output.
C23_SinkPullsOneAhead ==
    \A i \in StagesOf("sink") :
        LET up == out[i - 1]
            did == Steps(i)
            sets == ArtsOf("set", i, cycle)
            bad == EventsOf("fail", i, cycle) IN
        /\ did # <<>> => did[1].ev = "pull"
        /\ \A j \in 1..(Len(did) - 1) :
              /\ did[j].ev = "pull" => did[j + 1].ev # "pull"
              /\ did[j + 1].ev = "get" => j = 1
        /\ Len(up) <= Len(out[i]) + 1
        /\ bad = <<>> /\ up # <<>> =>
              /\ Len(out[i]) = Len(up)
              /\ sets = up
              /\ out[i][1] = Applied(up[1], i)
        /\ bad # <<>> /\ up # <<>> =>
              /\ Len(out[i]) = Len(up) - 1
              /\ bad[1].a = up[Len(up)]

\* a desktop stage behind a Source has set two seed artifacts and then the
\* Source's own
C23_Witness ==
    /\ PassComplete /\ Top = 2 /\ Len(seed) = 2
    /\ stages[1].kind = "source" /\ stages[2].kind = "sink"
    /\ Len(ArtsOf("set", 2, cycle)) >= 3
    /\ Len(EventsOf("pull", 2, cycle)) = Len(out[2]) + 1

\* the artifact the desktop background was last set to
LastSet ==
    LET sets == SelectSeq(log, LAMBDA e : e.ev = "set") IN
    IF sets = <<>> THEN DefaultBg ELSE sets[Len(sets)].a
IsPrefix(u, v) == Len(u) <= Len(v) /\ \A k \in 1..Len(u) : u[k] = v[k]

\* C24: a stage that raises on an artifact aborts the drain pass there.  The
\* failure is the last thing that happens: the run is over, the failing
\* artifact has been handled by earlier stages only and has not come out of
\* the pipeline, no seed behind it has been loaded, and no step follows.
\* What was done before stays: the background is the one last set, and a
\* drain step, failing or not, only adds to what the stages have yielded
\* and done.
C24_AbortKeepsEffects ==
    /\ [](Failed =>
            LET e == log[Len(log)] IN
            /\ pc \in {"exit", "raise"}
            /\ \A m \in 1..(Len(log) - 1) :
                  (log[m].c = cycle /\ e.a # NoArt /\ Id(log[m].a) = Id(e.a))
                      => log[m].st < e.st
            /\ \A k \in 1..Len(out[Top]) : Id(out[Top][k]) # Id(e.a)
            /\ \A m \in 1..Len(log) :
                  log[m].a.org = "seed" => log[m].a.k <= seedPos
            /\ (e.a.org = "seed" /\ cycle = 1) => seedPos = e.a.k)
    /\ [](bg = LastSet)
    /\ [][/\ ~Failed
          /\ pc = "drain" => /\ IsPrefix(log, log')
                             /\ \A j \in 0..Top : IsPrefix(out[j], out'[j])]_vars

\* the second of three seed artifacts was set as background by the first
\* stage and made the second stage fail; only the first one came through
C24_Witness ==
    /\ Failed /\ Top = 3 /\ Len(seed) = 3
    /\ stages[1].kind = "sink"
    /\ log[Len(log)].st = 2 /\ log[Len(log)].a = Applied(seed[2], 1)
    /\ bg = seed[2] /\ seedPos = 2
    /\ Len(out[3]) = 1 /\ Len(out[1]) = 2

\* C25 (as claimed): under repeat a desktop stage runs in every cycle in
\* the mode of the first cycle: one that set the background from artifacts
\* in cycle 1 never runs 'get' in a later cycle, and a later cycle that has
\* run to its end has set the background from the same artifacts again.
C25_SinkModeStable ==
    \A i \in StagesOf("sink") :
        ArtsOf("set", i, 1) # <<>> =>
            /\ ArtsOf("get", i, cycle) = <<>>
            /\ PassComplete =>
                  [k \in 1..Len(ArtsOf("set", i, cycle))
                      |-> Id(ArtsOf("set", i, cycle)[k])]
                  = [k \in 1..Len(ArtsOf("set", i, 1))
                      |-> Id(ArtsOf("set", i, 1)[k])]

\* C26 (as claimed): a pipeline that declares an 'every' stage anywhere
\* repeats: once its first drain pass has run to its end repeat is set,
\* whether or not an artifact went through that stage.
C26_EveryMakesRepeat == (Schedulers # {} /\ PassComplete) => repeat

\* C27 (as claimed): after a 'set' of an image file that succeeded, the file the
\* settings store names has the content of the file that was set, whatever
\* the wallpaper directory held before.
C27_StoreShowsArtifact ==
    (ret.op = "_set_desktop" /\ ret.res = "ok" /\ is_image(fs, ret.arg)) =>
        /\ is_file(fs, ToPath(store))
        /\ fs[ToPath(store)] = fs[ret.arg]

\* C28 (as claimed): an 'add' stage without --file and --url raises its
\* usage error only if the incoming stream delivered nothing: behind a
\* stream that delivered an artifact it raises nothing, and the pass that
\* handed the incoming artifacts on ends without an error.
C28_AddPassesThrough ==
    \A i \in StagesOf("add") :
        (stages[i].files = 0 /\ stages[i].urls = 0 /\ out[i - 1] # <<>>) =>
            /\ EventsOf("fail", i, cycle) = <<>>
            /\ ~(pc = "raise" /\ log[Len(log)].st = i)

\* C29 (as claimed): an 'add' stage appends one artifact per --file option
\* and one per --url option, the files first and then the urls, each kind
\* in declared order: with both kinds given none is lost.
C29_AddAppendsAll ==
    \A i \in StagesOf("add") :
        PassComplete =>
            LET own == ArtsOf("yield", i, cycle)
                nf == stages[i].files
                nu == stages[i].urls IN
            /\ Len(own) = nf + nu
            /\ \A k \in 1..Len(own) :
                  /\ own[k].org = IF k <= nf THEN "file" ELSE "url"
                  /\ own[k].k = IF k <= nf THEN k ELSE k - nf

\* a chain of Transform stages only, started without any artifact
OnlyTransformsOverNothing ==
    seed = <<>> /\ Top >= 1 /\ StagesOf("transform") = 1..Top

====
